---- MODULE Spec2Model ----
(***************************************************************************)
(* Model of the Florr backend simulation core (src/index.js): the player,  *)
(* item and mob stores, the socket command handlers and the 50 ms tick.    *)
(*                                                                         *)
(* Node runs every socket handler and every interval callback to           *)
(* completion on one thread, so each handler and each tick is one action.  *)
(*                                                                         *)
(* src/index.js never closes the arrow function opened at line 524: the    *)
(* setInterval of line 627 sits inside the callback of the setInterval of  *)
(* line 524.  The model reads it as written: the outer callback (lines     *)
(* 525-625) runs the combat pass and then registers one more 50 ms         *)
(* interval whose callback is lines 628-718.                               *)
(*                                                                         *)
(* Orbit trigonometry (Math.cos/Math.sin of a float angle) is not          *)
(* computed: a petal lies somewhere on the circle of radius orbitDist      *)
(* around its owner, so a hit on a target is possible exactly when that    *)
(* circle meets the target's hit disc (Feasible); which of the possible    *)
(* hits happen in a tick is an input of the tick.                          *)
(*                                                                         *)
(* Emissions are modelled as the list of events a handler or a tick sends, *)
(* and the requests of savePlayerState as the list of writes a handler     *)
(* issues; their serialisation by socket.io and the replies of the profile *)
(* store are outside the model.                                            *)
(***************************************************************************)
EXTENDS Integers, Sequences, FiniteSets, TLC

(* ------------------------------ bounds -------------------------------- *)
MaxClock == 6000
MaxIntervals == 3
MaxMobs == 7
MaxStore == 60
MaxHits == 2
MaxDelta == 2700
MaxHotbarIdx == 1
MaxInvIdx == 1
MidDelta == 1000

(* ------------------------- program constants -------------------------- *)
worldWidth == 8000
worldHeight == 4000
ADMIN_USERNAME == "CharmedZ"
rarityZones == <<"common", "unusual", "rare", "epic", "legendary", "mythic", "ultra">>
maxMobsPerZone == 15
InventorySize == 24
playerRadius == 20
playerSpeed == 3
defaultOrbitDist == 56
defaultItemRadius == 8
dropRadius == 16
baseMaxHealth == 100
respawnInvincibleMs == 2000
mobBaseDamage == 25
mobBaseHealth == 100
mobBaseSize == 40
mobTtlMs == 60000
adminBoneGift == 20

rarityMultipliers(r) ==
  CASE r = "common" -> 1
    [] r = "unusual" -> 3
    [] r = "rare" -> 9
    [] r = "epic" -> 27
    [] r = "legendary" -> 81
    [] r = "mythic" -> 243
    [] r = "ultra" -> 729
    [] OTHER -> 1

Min(a, b) == IF a < b THEN a ELSE b
Max(a, b) == IF a > b THEN a ELSE b
Sq(a) == a * a

(* ------------------------------- items -------------------------------- *)
\* null / undefined in a hotbar or inventory slot
NoItem ==
  [name |-> "null", rarity |-> "", damage |-> 0, health |-> 0, maxHealth |-> 0,
   reload |-> 0, reloadUntil |-> 0, radius |-> 0]

createBonePetal(rarity) ==
  [name |-> "Bone", rarity |-> rarity,
   damage |-> 30 * rarityMultipliers(rarity),
   health |-> 75 * rarityMultipliers(rarity),
   maxHealth |-> 75 * rarityMultipliers(rarity),
   reload |-> 3000, reloadUntil |-> 0, radius |-> 0]

\* the item spawnItem() puts into the world, as stored once picked up
droppedPetal(rarity) ==
  [name |-> "Petal", rarity |-> rarity,
   damage |-> 5 * rarityMultipliers(rarity),
   health |-> 15 * rarityMultipliers(rarity),
   maxHealth |-> 15 * rarityMultipliers(rarity),
   reload |-> 2000, reloadUntil |-> 0, radius |-> 8]

starterPetal ==
  [name |-> "Petal", rarity |-> "unusual",
   damage |-> 10 * rarityMultipliers("unusual"),
   health |-> 25 * rarityMultipliers("unusual"),
   maxHealth |-> 25 * rarityMultipliers("unusual"),
   reload |-> 2000, reloadUntil |-> 0, radius |-> 0]

starterHotbar == [i \in 1..10 |-> IF i <= 9 THEN starterPetal ELSE createBonePetal("common")]

NoSlot == [item |-> NoItem, count |-> 0]
Stack(it, n) == [item |-> it, count |-> n]
emptyInventory == [i \in 1..InventorySize |-> NoSlot]

SameKind(a, b) == a.name = b.name /\ a.rarity = b.rarity

\* Array.prototype.find / findIndex over the inventory: lowest matching index, 0 if none
RECURSIVE FirstFrom(_, _, _)
FirstFrom(inv, it, i) ==
  IF i > Len(inv) THEN 0
  ELSE IF inv[i] # NoSlot /\ SameKind(inv[i].item, it) THEN i
  ELSE FirstFrom(inv, it, i + 1)
findExisting(inv, it) == FirstFrom(inv, it, 1)

RECURSIVE EmptyFrom(_, _)
EmptyFrom(inv, i) ==
  IF i > Len(inv) THEN 0
  ELSE IF inv[i] = NoSlot THEN i
  ELSE EmptyFrom(inv, i + 1)
\* the highest empty slot instead of the lowest
lastEmptyIdx(inv) ==
  IF \E i \in 1..Len(inv) : inv[i] = NoSlot
  THEN CHOOSE i \in 1..Len(inv) : inv[i] = NoSlot /\ \A j \in (i + 1)..Len(inv) : inv[j] # NoSlot
  ELSE 0

findEmptyIdx(inv) == EmptyFrom(inv, 1)

(* ------------------------------ players ------------------------------- *)
spawnX == 20
spawnY == worldHeight \div 2

\* hotbar: the array elements; hotbarProp: the value stored under a key that
\* is not an array index (p.hotbar[-1]), which is no element of the array
createPendingPlayer ==
  [x |-> spawnX, y |-> spawnY, speed |-> playerSpeed,
   hotbar |-> <<>>, hotbarProp |-> NoItem, inventory |-> emptyInventory,
   username |-> "", isAdmin |-> FALSE, orbitDist |-> defaultOrbitDist,
   health |-> 100, maxHealth |-> 100, invincibleUntil |-> 0]

Conns == {1, 2}

VARIABLES
  clock,            \* Date.now()
  conn,             \* per socket: "none", "open", "closed"
  authedUser,       \* per connection closure: the authenticated username, "" when null
  activePlayers,    \* username -> socket id, as a set of <<username, id>>
  pp,               \* per connection: its pendingPlayer object (the stored player once spawned)
  players,          \* keys of the players Map in insertion order
  items,            \* the items Map, a set of records with unique ids
  mobs,             \* the mobs Map in insertion order
  nextId,           \* stands for the random id suffixes: the next unused one
  nestedIntervals,  \* number of intervals registered by line 627
  crashed,          \* an interval callback threw: the process is gone
  hitLog,           \* damage applications of the last tick, in order
  lastHits,         \* the petal/target pairs that were in range in the last tick
  deaths,           \* mobs killed in the last tick, in order
  sent,             \* emissions of the last handler or tick, in order (to 0: everyone)
  pickLog,          \* pickup_request outcomes so far: wins, and requests for a gone item
  saved             \* PATCH requests issued to the profile store by the last handler

vars == <<clock, conn, authedUser, activePlayers, pp, players, items, mobs, nextId,
          nestedIntervals, crashed, hitLog, lastHits, deaths, sent, pickLog, saved>>

\* the stores and closures of the program, without the logs kept for checking
state == <<clock, conn, authedUser, activePlayers, pp, players, items, mobs,
           nestedIntervals, crashed>>

InStore(id) == \E i \in 1..Len(players) : players[i] = id
ItemIds == {it.id : it \in items}
ItemById(itemId) == CHOOSE it \in items : it.id = itemId

Init ==
  /\ clock = 0
  /\ conn = [c \in Conns |-> "none"]
  /\ authedUser = [c \in Conns |-> ""]
  /\ activePlayers = {}
  /\ pp = [c \in Conns |-> createPendingPlayer]
  /\ players = <<>>
  /\ items = {}
  /\ mobs = <<>>
  /\ nextId = 1
  /\ nestedIntervals = 0
  /\ crashed = FALSE
  /\ hitLog = <<>>
  /\ lastHits = {}
  /\ deaths = <<>>
  /\ sent = <<>>
  /\ pickLog = {}
  /\ saved = <<>>

(* --------------------------- command handlers ------------------------- *)
Emit(to, ev, arg) == [to |-> to, ev |-> ev, arg |-> arg]

\* savePlayerState(username, inventory, hotbar): the request it issues, none
\* for an empty username; the body is serialised at the call
Save(username, inventory, hotbar) ==
  [username |-> username, inventory |-> inventory, hotbar |-> hotbar]
savePlayerState(username, inventory, hotbar) ==
  IF username = "" THEN <<>> ELSE <<Save(username, inventory, hotbar)>>

\* writes that a handler leaves to the tick
NoTickOutput ==
  /\ hitLog' = <<>>
  /\ lastHits' = {}
  /\ deaths' = <<>>
  /\ UNCHANGED <<mobs, nextId, nestedIntervals, crashed>>

\* io.on("connection"): the socket exists and owns a fresh pendingPlayer
Connect(id) ==
  /\ ~crashed
  /\ conn[id] = "none"
  /\ \A c \in Conns : c < id => conn[c] # "none"
  /\ conn' = [conn EXCEPT ![id] = "open"]
  /\ pp' = [pp EXCEPT ![id] = createPendingPlayer]
  /\ sent' = <<>>
  /\ NoTickOutput
  /\ saved' = <<>>
  /\ UNCHANGED <<clock, authedUser, activePlayers, players, items, pickLog>>

\* a disconnect that leaves the session entry behind
keepSession(id) == activePlayers

\* socket.on("disconnect")
releaseSession(id) ==
  IF authedUser[id] # "" /\ <<authedUser[id], id>> \in activePlayers
  THEN {e \in activePlayers : e[1] # authedUser[id]}
  ELSE activePlayers

deleteKey(seq, id) == SelectSeq(seq, LAMBDA k : k # id)

\* line 516: the save goes with the release, under the authenticated username
disconnectSaves(id) ==
  IF authedUser[id] # "" /\ <<authedUser[id], id>> \in activePlayers
  THEN savePlayerState(authedUser[id], pp[id].inventory, pp[id].hotbar)
  ELSE <<>>

Disconnect(id) ==
  /\ ~crashed
  /\ conn[id] = "open"
  /\ conn' = [conn EXCEPT ![id] = "closed"]
  /\ activePlayers' = releaseSession(id)
  /\ players' = deleteKey(players, id)
  /\ sent' = <<>>
  /\ saved' = disconnectSaves(id)
  /\ NoTickOutput
  /\ UNCHANGED <<clock, authedUser, pp, items, pickLog>>

\* socket.on("auth"). The handler awaits the profile store before its first
\* write, so the action is its continuation, which runs when the reply comes:
\* any time after the request, also after the socket has disconnected. prof is
\* the stored row of a reply whose token matched (an empty sequence stands for
\* a null column).
restoreInventory(prof) == IF prof.inventory = <<>> THEN emptyInventory ELSE prof.inventory

\* an auth that never finds a session
noSession(username) == FALSE

\* activePlayers.has(username)
hasSession(username) == \E e \in activePlayers : e[1] = username

\* socket.emit reaches a connected socket only
EmitTo(id, ev) == IF conn[id] = "open" THEN <<Emit(id, ev, 0)>> ELSE <<>>

Auth(id, username, prof) ==
  /\ ~crashed
  /\ conn[id] # "none"
  /\ IF hasSession(username)
     THEN /\ sent' = EmitTo(id, "auth_failed")
          /\ conn' = [conn EXCEPT ![id] = "closed"]
          /\ activePlayers' = IF conn[id] = "open" THEN releaseSession(id) ELSE activePlayers
          /\ players' = deleteKey(players, id)
          /\ saved' = IF conn[id] = "open" THEN disconnectSaves(id) ELSE <<>>
          /\ UNCHANGED <<authedUser, pp>>
     ELSE /\ activePlayers' = activePlayers \cup {<<username, id>>}
          /\ authedUser' = [authedUser EXCEPT ![id] = username]
          /\ pp' = [pp EXCEPT ![id].inventory = restoreInventory(prof),
                              ![id].hotbar = prof.hotbar]
          /\ sent' = EmitTo(id, "auth_success")
          /\ saved' = <<>>
          /\ UNCHANGED <<conn, players>>
  /\ NoTickOutput
  /\ UNCHANGED <<clock, items, pickLog>>

\* the same continuation for a reply without a row, with another token, or
\* for a failed request: auth_failed and nothing else
AuthRefused(id) ==
  /\ ~crashed
  /\ conn[id] # "none"
  /\ sent' = EmitTo(id, "auth_failed")
  /\ NoTickOutput
  /\ saved' = <<>>
  /\ UNCHANGED <<clock, conn, authedUser, activePlayers, pp, players, items, pickLog>>

\* socket.on("chat_message"): reads the player's name and flag, writes nothing
ChatMessage(id) ==
  /\ ~crashed
  /\ conn[id] = "open"
  /\ sent' = <<Emit(0, "chat_message", 0)>>
  /\ NoTickOutput
  /\ saved' = <<>>
  /\ UNCHANGED <<clock, conn, authedUser, activePlayers, pp, players, items, pickLog>>

\* the loop of lines 343-355: twenty times, stack onto an ultra Bone stack or
\* open one in the first empty slot
RECURSIVE giveBones(_, _)
giveBones(inv, n) ==
  IF n = 0 THEN inv
  ELSE LET ex == findExisting(inv, createBonePetal("ultra"))
           em == findEmptyIdx(inv)
       IN IF ex # 0 THEN giveBones([inv EXCEPT ![ex].count = @ + 1], n - 1)
          ELSE IF em # 0
               THEN giveBones([inv EXCEPT ![em] = Stack(createBonePetal("ultra"), 1)], n - 1)
               ELSE giveBones(inv, n - 1)

\* the set_username of the earlier revision: the starter hotbar in every case
setUsernameStarter(p, username) ==
  [p EXCEPT !.username = username, !.hotbar = starterHotbar]

setUsernamePlayer(p, username) ==
  LET p1 == [p EXCEPT !.username = username]
      p2 == IF username = ADMIN_USERNAME
            THEN [p1 EXCEPT !.speed = @ * 3, !.isAdmin = TRUE,
                            !.inventory = giveBones(@, adminBoneGift)]
            ELSE p1
      p3 == IF Len(p2.hotbar) = 0 THEN [p2 EXCEPT !.hotbar = starterHotbar] ELSE p2
  IN IF Len(p3.inventory) = 0 THEN [p3 EXCEPT !.inventory = emptyInventory] ELSE p3

mapSet(seq, id) == IF \E i \in 1..Len(seq) : seq[i] = id THEN seq ELSE Append(seq, id)

\* a set_username that takes every connection for authenticated
alwaysAuthenticated(id) == TRUE

\* authedUser is not null
authenticated(id) == authedUser[id] # ""

SetUsername(id, username) ==
  /\ ~crashed
  /\ conn[id] = "open"
  /\ IF ~authenticated(id)
     THEN /\ sent' = <<Emit(id, "error", 0)>>
          /\ UNCHANGED <<pp, players>>
     ELSE /\ pp' = [pp EXCEPT ![id] = setUsernamePlayer(pp[id], username)]
          /\ players' = mapSet(players, id)
          /\ sent' = <<Emit(id, "world_snapshot", 0)>>
  /\ NoTickOutput
  /\ saved' = <<>>
  /\ UNCHANGED <<clock, conn, authedUser, activePlayers, items, pickLog>>

\* a clamp to the world's edges that forgets the player's radius
clampToWorld(x) == Max(0, Min(worldWidth, x))

clampX(x) == Max(playerRadius, Min(worldWidth - playerRadius, x))
clampY(y) == Max(playerRadius, Min(worldHeight - playerRadius, y))

\* a move that costs the player one point of health
moveTiring(p, dx, dy) ==
  [p EXCEPT !.x = clampX(p.x + dx * p.speed), !.y = clampY(p.y + dy * p.speed),
            !.health = @ - 1]

movePlayer(p, dx, dy) ==
  [p EXCEPT !.x = clampX(p.x + dx * p.speed), !.y = clampY(p.y + dy * p.speed)]

Move(id, dx, dy) ==
  /\ ~crashed
  /\ conn[id] = "open"
  /\ IF ~InStore(id) \/ pp[id].health <= 0
     THEN UNCHANGED pp
     ELSE pp' = [pp EXCEPT ![id] = movePlayer(pp[id], dx, dy)]
  /\ sent' = <<>>
  /\ NoTickOutput
  /\ saved' = <<>>
  /\ UNCHANGED <<clock, conn, authedUser, activePlayers, players, items, pickLog>>

OrbitControl(id, orbitDist) ==
  /\ ~crashed
  /\ conn[id] = "open"
  /\ IF ~InStore(id)
     THEN UNCHANGED pp
     ELSE pp' = [pp EXCEPT ![id].orbitDist = orbitDist]
  /\ sent' = <<>>
  /\ NoTickOutput
  /\ saved' = <<>>
  /\ UNCHANGED <<clock, conn, authedUser, activePlayers, players, items, pickLog>>

D2(ax, ay, bx, by) == Sq(ax - bx) + Sq(ay - by)

\* distance(p.x, p.y, it.x, it.y) < p.radius + it.radius
inPickupRange(p, it) == D2(p.x, p.y, it.x, it.y) < Sq(playerRadius + it.radius)

\* what the inventory slot keeps of a world item
itemOf(it) ==
  [name |-> it.name, rarity |-> it.rarity, damage |-> it.damage, health |-> it.health,
   maxHealth |-> it.maxHealth, reload |-> it.reload, reloadUntil |-> it.reloadUntil,
   radius |-> it.radius]

\* lines 433-444: stack, else first empty slot, else nothing
storeInInventory(inv, it) ==
  LET ex == findExisting(inv, it)
      em == findEmptyIdx(inv)
  IN IF ex # 0 THEN [inv EXCEPT ![ex].count = @ + 1]
     ELSE IF em # 0 THEN [inv EXCEPT ![em] = Stack(it, 1)]
     ELSE inv

\* a pickup that leaves the item in the world
keepItem(its, it) == its

deleteItem(its, it) == its \ {it}

PickLost(id, itemId) == [item |-> itemId, by |-> id, won |-> FALSE, added |-> FALSE]
PickWon(id, itemId, added) == [item |-> itemId, by |-> id, won |-> TRUE, added |-> added]

PickupRequest(id, itemId) ==
  /\ ~crashed
  /\ conn[id] = "open"
  /\ IF ~InStore(id) \/ itemId \notin ItemIds
     THEN /\ sent' = <<>>
          /\ saved' = <<>>
          /\ pickLog' = IF InStore(id) /\ (\E e \in pickLog : e.item = itemId)
                        THEN pickLog \cup {PickLost(id, itemId)}
                        ELSE pickLog
          /\ UNCHANGED <<pp, items>>
     ELSE LET it == ItemById(itemId)
              inv == storeInInventory(pp[id].inventory, itemOf(it))
          IN IF inPickupRange(pp[id], it)
             THEN /\ pp' = [pp EXCEPT ![id].inventory = inv]
                  /\ items' = deleteItem(items, it)
                  /\ sent' = <<Emit(id, "inventory_update", 0)>>
                  /\ saved' = savePlayerState(pp[id].username, inv, pp[id].hotbar)
                  /\ pickLog' = pickLog \cup {PickWon(id, itemId, inv # pp[id].inventory)}
             ELSE /\ sent' = <<>>
                  /\ saved' = <<>>
                  /\ UNCHANGED <<pp, items, pickLog>>
  /\ NoTickOutput
  /\ UNCHANGED <<clock, conn, authedUser, activePlayers, players>>

\* p.hotbar[key]: an array index reads the element (undefined past the end),
\* any other key reads the property of that name
hotbarGet(p, key) ==
  IF key < 0 THEN p.hotbarProp
  ELSE IF key + 1 <= Len(p.hotbar) THEN p.hotbar[key + 1]
  ELSE NoItem

\* p.hotbar[key] = v: an index past the end grows the array, leaving holes
hotbarSet(p, key, v) ==
  IF key < 0 THEN [p EXCEPT !.hotbarProp = v]
  ELSE IF key + 1 <= Len(p.hotbar) THEN [p EXCEPT !.hotbar[key + 1] = v]
  ELSE [p EXCEPT !.hotbar = @ \o [i \in 1..(key - Len(@)) |-> NoItem] \o <<v>>]

\* keys are whole numbers in the model; lengthKey stands for the property
\* name "length", which a client may send as invIndex like any other key
lengthKey == 0 - 2

inventoryGet(p, invIndex) ==
  IF invIndex >= 0 /\ invIndex + 1 <= Len(p.inventory) THEN p.inventory[invIndex + 1]
  ELSE NoSlot

\* !slot of line 457 is false: an occupied slot, or the array's length (a
\* number, truthy unless 0) under the key "length"
slotTruthy(p, invIndex) ==
  IF invIndex = lengthKey THEN Len(p.inventory) > 0
  ELSE inventoryGet(p, invIndex) # NoSlot

\* lines 459-465 for the key "length": slot is a number, so slot.count and
\* slot.item are undefined; the else branch stores undefined in the hotbar
\* and assigns p.inventory.length = null, which truncates the array to length 0
equipLength(p, hotbarIndex) ==
  hotbarSet([p EXCEPT !.inventory = <<>>], hotbarIndex, NoItem)

\* the equip of the earlier revision: the slot is emptied whatever its count
equipWholeSlot(p, invIndex, hotbarIndex) ==
  hotbarSet([p EXCEPT !.inventory[invIndex + 1] = NoSlot], hotbarIndex,
            inventoryGet(p, invIndex).item)

equipPlayer(p, invIndex, hotbarIndex) ==
  LET slot == inventoryGet(p, invIndex)
  IN IF invIndex = lengthKey THEN equipLength(p, hotbarIndex)
     ELSE IF slot.count > 1
     THEN hotbarSet([p EXCEPT !.inventory[invIndex + 1].count = @ - 1], hotbarIndex, slot.item)
     ELSE hotbarSet([p EXCEPT !.inventory[invIndex + 1] = NoSlot], hotbarIndex, slot.item)

EquipRequest(id, invIndex, hotbarIndex) ==
  /\ ~crashed
  /\ conn[id] = "open"
  /\ IF ~InStore(id) \/ ~slotTruthy(pp[id], invIndex)
     THEN /\ sent' = <<>>
          /\ saved' = <<>>
          /\ UNCHANGED pp
     ELSE /\ pp' = [pp EXCEPT ![id] = equipPlayer(pp[id], invIndex, hotbarIndex)]
          /\ sent' = <<Emit(id, "inventory_update", 0), Emit(id, "hotbar_update", 0)>>
          /\ saved' = savePlayerState(pp'[id].username, pp'[id].inventory, pp'[id].hotbar)
  /\ NoTickOutput
  /\ UNCHANGED <<clock, conn, authedUser, activePlayers, players, items, pickLog>>

\* an unequip that clears the hotbar slot although the inventory has no room
unequipDropping(p, hotbarIndex) ==
  LET item == hotbarGet(p, hotbarIndex)
      ex == findExisting(p.inventory, item)
      em == findEmptyIdx(p.inventory)
  IN IF ex # 0
     THEN hotbarSet([p EXCEPT !.inventory[ex].count = @ + 1], hotbarIndex, NoItem)
     ELSE IF em = 0 THEN hotbarSet(p, hotbarIndex, NoItem)
     ELSE hotbarSet([p EXCEPT !.inventory[em] = Stack(item, 1)], hotbarIndex, NoItem)

\* lines 480-492; the player is returned unchanged when the inventory has no room
unequipPlayer(p, hotbarIndex) ==
  LET item == hotbarGet(p, hotbarIndex)
      ex == findExisting(p.inventory, item)
      em == findEmptyIdx(p.inventory)
  IN IF ex # 0
     THEN hotbarSet([p EXCEPT !.inventory[ex].count = @ + 1], hotbarIndex, NoItem)
     ELSE IF em = 0 THEN p
     ELSE hotbarSet([p EXCEPT !.inventory[em] = Stack(item, 1)], hotbarIndex, NoItem)

UnequipRequest(id, hotbarIndex) ==
  /\ ~crashed
  /\ conn[id] = "open"
  /\ IF ~InStore(id) \/ hotbarGet(pp[id], hotbarIndex) = NoItem
        \/ unequipPlayer(pp[id], hotbarIndex) = pp[id]
     THEN /\ sent' = <<>>
          /\ saved' = <<>>
          /\ UNCHANGED pp
     ELSE /\ pp' = [pp EXCEPT ![id] = unequipPlayer(pp[id], hotbarIndex)]
          /\ sent' = <<Emit(id, "inventory_update", 0), Emit(id, "hotbar_update", 0)>>
          /\ saved' = savePlayerState(pp'[id].username, pp'[id].inventory, pp'[id].hotbar)
  /\ NoTickOutput
  /\ UNCHANGED <<clock, conn, authedUser, activePlayers, players, items, pickLog>>

\* the respawn of the earlier revision: health back to the base 100
respawnAtBase(p, now) ==
  [p EXCEPT !.x = spawnX, !.y = spawnY, !.health = baseMaxHealth,
            !.invincibleUntil = now + respawnInvincibleMs]

respawnPlayer(p, now) ==
  [p EXCEPT !.x = spawnX, !.y = spawnY, !.health = p.maxHealth,
            !.invincibleUntil = now + respawnInvincibleMs]

RespawnRequest(id) ==
  /\ ~crashed
  /\ conn[id] = "open"
  /\ IF ~InStore(id)
     THEN /\ sent' = <<>>
          /\ UNCHANGED pp
     ELSE /\ pp' = [pp EXCEPT ![id] = respawnPlayer(pp[id], clock)]
          /\ sent' = <<Emit(id, "respawn_success", 0)>>
  /\ NoTickOutput
  /\ saved' = <<>>
  /\ UNCHANGED <<clock, conn, authedUser, activePlayers, players, items, pickLog>>

\* Date.now() moves on between callbacks
Advance(dt) ==
  /\ ~crashed
  /\ clock + dt <= MaxClock
  /\ clock' = clock + dt
  /\ UNCHANGED <<conn, authedUser, activePlayers, pp, players, items, mobs, nextId,
                 nestedIntervals, crashed, hitLog, lastHits, deaths, sent, pickLog, saved>>

(* -------------------------------- mobs -------------------------------- *)
NumZones == Len(rarityZones)

\* Math.floor(m.x / zoneWidth), zoneWidth = world.width / rarityZones.length
zoneOf(x) == (x * NumZones) \div worldWidth

RECURSIVE countFrom(_, _, _)
countFrom(ms, zoneIndex, i) ==
  IF i > Len(ms) THEN 0
  ELSE (IF zoneOf(ms[i].x) = zoneIndex THEN 1 ELSE 0) + countFrom(ms, zoneIndex, i + 1)
countMobsInZone(ms, zoneIndex) == countFrom(ms, zoneIndex, 1)

\* the record spawnMob stores: no damageDealers and no spawnTime property
spawnMob(id, x0, y0) ==
  LET x == Max(0, Min(worldWidth, x0))
      y == Max(0, Min(worldHeight, y0))
      zoneIndex == Max(0, Min(NumZones - 1, zoneOf(x)))
      rarity == rarityZones[zoneIndex + 1]
      mult == rarityMultipliers(rarity)
  IN [id |-> id, x |-> x, y |-> y, radius |-> mobBaseSize * (1 + zoneIndex),
      damage |-> mobBaseDamage * mult, health |-> mobBaseHealth * mult,
      maxHealth |-> mobBaseHealth * mult, rarity |-> rarity,
      hasDealers |-> FALSE, damageDealers |-> <<>>,
      hasSpawnTime |-> FALSE, spawnTime |-> 0]

\* the whole coordinates of band zoneIndex run from bandStart(zoneIndex) to
\* bandStart(zoneIndex + 1) - 1; zoneWidth = 8000 / 7 is no whole number
bandStart(zoneIndex) == (zoneIndex * worldWidth + NumZones - 1) \div NumZones

\* the draw that stands for Math.random() = 1 - 2^-52, the largest it returns
topDraw == 1143

\* in double arithmetic zoneIndex * zoneWidth + (1 - 2^-52) * zoneWidth is
\* (zoneIndex + 1) * zoneWidth for the bands 2, 5 and 6 (3428.5714285714284,
\* 6857.142857142857 and, after the clamp of spawnMob, 8000), whose quotient by
\* zoneWidth is the whole number zoneIndex + 1; for the other bands it stays below
roundsUp(zoneIndex) == zoneIndex \in {2, 5, 6}

\* zoneIndex * zoneWidth + Math.random() * zoneWidth in whole coordinates, for
\* the draw rx in 1..topDraw
spawnXIn(zoneIndex, rx) ==
  IF rx < topDraw THEN (zoneIndex * worldWidth) \div NumZones + rx
  ELSE IF roundsUp(zoneIndex) THEN bandStart(zoneIndex + 1)
  ELSE bandStart(zoneIndex + 1) - 1

spawnAllowed(ms, zoneIndex) == countMobsInZone(ms, zoneIndex) < maxMobsPerZone

\* lines 701-707, zone by zone; w carries the stores through the tick
RECURSIVE spawnPass(_, _, _, _)
spawnPass(w, zoneIndex, rx, ry) ==
  IF zoneIndex >= NumZones THEN w
  ELSE IF spawnAllowed(w.mobs, zoneIndex)
       THEN spawnPass([w EXCEPT !.mobs = Append(@, spawnMob(w.nextId, spawnXIn(zoneIndex, rx), ry)),
                                !.nextId = @ + 1],
                      zoneIndex + 1, rx, ry)
       ELSE spawnPass(w, zoneIndex + 1, rx, ry)

\* Date.now() - m.spawnTime > 60000: NaN > 60000 is false when spawnTime is undefined
despawnDue(m, now) == m.hasSpawnTime /\ now - m.spawnTime > mobTtlMs

despawnPass(w, now) ==
  [w EXCEPT !.mobs = SelectSeq(@, LAMBDA m : ~despawnDue(m, now))]

(* ------------------------------- combat ------------------------------- *)
\* a petal of hotbar element s of player a in range of a player or a mob
Hit(a, s, kind, id) == [a |-> a, s |-> s, kind |-> kind, id |-> id]

effOrbitDist(p) == IF p.orbitDist = 0 THEN defaultOrbitDist ELSE p.orbitDist
effItemRadius(item) == IF item.radius = 0 THEN defaultItemRadius ELSE item.radius

\* some angle puts the petal within reach + the target's radius of (tx, ty)
Feasible(p, item, tx, ty, tradius) ==
  LET od == effOrbitDist(p)
      R == tradius + effItemRadius(item)
      d2 == D2(p.x, p.y, tx, ty)
  IN /\ d2 < Sq(od + R)
     /\ (od - R < 0 \/ d2 > Sq(od - R))

mobIndex(ms, id) == IF \E i \in 1..Len(ms) : ms[i].id = id
                    THEN CHOOSE i \in 1..Len(ms) : ms[i].id = id
                    ELSE 0

FeasibleHits ==
  {h \in [a : {players[i] : i \in 1..Len(players)}, s : 1..10, kind : {"player"},
          id : {players[i] : i \in 1..Len(players)}] :
      /\ h.s <= Len(pp[h.a].hotbar) /\ pp[h.a].hotbar[h.s] # NoItem /\ h.id # h.a
      /\ Feasible(pp[h.a], pp[h.a].hotbar[h.s], pp[h.id].x, pp[h.id].y, playerRadius)}
  \cup
  {h \in [a : {players[i] : i \in 1..Len(players)}, s : 1..10, kind : {"mob"},
          id : {mobs[i].id : i \in 1..Len(mobs)}] :
      /\ h.s <= Len(pp[h.a].hotbar) /\ pp[h.a].hotbar[h.s] # NoItem
      /\ LET m == mobs[mobIndex(mobs, h.id)]
         IN Feasible(pp[h.a], pp[h.a].hotbar[h.s], m.x, m.y, m.radius)}

RECURSIVE SubsetsUpTo(_, _)
SubsetsUpTo(F, n) ==
  IF n = 0 THEN {{}}
  ELSE LET prev == SubsetsUpTo(F, n - 1)
       IN prev \cup {s \cup {a} : s \in prev, a \in F}

inReload(item, now) == item.reloadUntil # 0 /\ now < item.reloadUntil
\* a combat pass that forgets the invincibility window
neverInvincible(other, now) == FALSE

invincible(other, now) == other.invincibleUntil # 0 /\ now < other.invincibleUntil
\* a combat pass that does not skip the dead
neverDead(p) == FALSE

isDead(p) == p.health <= 0

\* a combat pass without the admin scaling of line 549
plainDamage(p, item) == item.damage

dealtDamage(p, item) == IF p.isAdmin THEN item.damage * 2 ELSE item.damage

\* a petal that keeps wearing below 0 and never reloads
wearNoReset(item, loss, now) == [item EXCEPT !.health = @ - loss]

\* a petal that starts its reload only once its durability is below 0
wearBelowZero(item, loss, now) ==
  IF item.health - loss < 0
  THEN [item EXCEPT !.reloadUntil = now + item.reload, !.health = item.maxHealth]
  ELSE [item EXCEPT !.health = @ - loss]

\* item.health -= loss; at or below 0 the reload starts and durability is restored
wearItem(item, loss, now) ==
  IF item.health - loss <= 0
  THEN [item EXCEPT !.reloadUntil = now + item.reload, !.health = item.maxHealth]
  ELSE [item EXCEPT !.health = @ - loss]

LogEntry(w, a, s, kind, id, now, dmg, tgtHealth, tgtInvincibleUntil) ==
  [a |-> a, s |-> s, kind |-> kind, id |-> id, now |-> now, dmg |-> dmg,
   reloadUntil |-> w.pp[a].hotbar[s].reloadUntil, attHealth |-> w.pp[a].health,
   tgtHealth |-> tgtHealth, tgtInvincibleUntil |-> tgtInvincibleUntil]

\* the same entry with what the damage application left behind: the petal
\* before and after it, and the target's health after it
Landed(e, petal, petalAfter, admin, tgtAfter) ==
  [a |-> e.a, s |-> e.s, kind |-> e.kind, id |-> e.id, now |-> e.now, dmg |-> e.dmg,
   reloadUntil |-> e.reloadUntil, attHealth |-> e.attHealth,
   tgtHealth |-> e.tgtHealth, tgtInvincibleUntil |-> e.tgtInvincibleUntil,
   petal |-> petal, petalAfter |-> petalAfter, admin |-> admin, tgtAfter |-> tgtAfter]

\* lines 553-572 for one other player o
hitPlayer(w, a, s, o, now, hits) ==
  LET p == w.pp[a]
      item == p.hotbar[s]
      other == w.pp[o]
      dmg == dealtDamage(p, item)
      health == IF other.health - dmg <= 0 THEN 0 ELSE other.health - dmg
  IN IF o = a \/ isDead(other) THEN w
     ELSE IF Hit(a, s, "player", o) \notin hits THEN w
     ELSE IF invincible(other, now) THEN w
     ELSE [w EXCEPT !.pp[o].health = health,
                    !.pp[a].hotbar[s] = wearItem(item, dmg, now),
                    !.sent = IF health = 0 THEN Append(@, Emit(o, "player_dead", 0)) ELSE @,
                    !.hitLog = Append(@, Landed(LogEntry(w, a, s, "player", o, now, dmg,
                                                         other.health, other.invincibleUntil),
                                                item, wearItem(item, dmg, now),
                                                p.isAdmin, health))]

RECURSIVE hitPlayers(_, _, _, _, _, _)
hitPlayers(w, a, s, order, now, hits) ==
  IF order = <<>> THEN w
  ELSE hitPlayers(hitPlayer(w, a, s, Head(order), now, hits), a, s, Tail(order), now, hits)

\* m.damageDealers after "if (!m.damageDealers) ... new Set(); add(p.id)"
addDealer(m, a) ==
  IF \E i \in 1..Len(m.damageDealers) : m.damageDealers[i] = a
  THEN [m EXCEPT !.hasDealers = TRUE]
  ELSE [m EXCEPT !.hasDealers = TRUE, !.damageDealers = Append(@, a)]

\* the drop of lines 599-607
boneDrop(id, m) ==
  LET bone == createBonePetal(m.rarity)
  IN [id |-> id, x |-> m.x, y |-> m.y, radius |-> dropRadius,
      name |-> bone.name, rarity |-> bone.rarity, damage |-> bone.damage,
      health |-> bone.health, maxHealth |-> bone.maxHealth, reload |-> bone.reload,
      reloadUntil |-> bone.reloadUntil]

\* a notification for the first recorded dealer alone
lootToFirst(dealers, dropId) ==
  IF dealers = <<>> THEN <<>> ELSE <<Emit(Head(dealers), "item_spawn", dropId)>>

\* lines 611-616: one item_spawn per recorded dealer that is still in the store
RECURSIVE lootMessages(_, _)
lootMessages(dealers, dropId) ==
  IF dealers = <<>> THEN <<>>
  ELSE (IF InStore(Head(dealers)) THEN <<Emit(Head(dealers), "item_spawn", dropId)>> ELSE <<>>)
       \o lootMessages(Tail(dealers), dropId)

\* a kill that leaves the mob in the store
keepMob(ms, id) == ms

removeMob(ms, id) == SelectSeq(ms, LAMBDA m : m.id # id)

\* lines 575-620 for one mob; to 0 is the broadcast of io.emit
hitMob(w, a, s, mobId, now, hits) ==
  LET i == mobIndex(w.mobs, mobId)
  IN IF i = 0 THEN w
     ELSE LET p == w.pp[a]
              item == p.hotbar[s]
              m == w.mobs[i]
              dmg == dealtDamage(p, item)
              loss == IF p.isAdmin THEN m.damage * 2 ELSE m.damage
              m1 == addDealer([m EXCEPT !.health = @ - dmg], a)
              w1 == [w EXCEPT !.pp[a].hotbar[s] = wearItem(item, loss, now),
                              !.hitLog = Append(@, Landed(LogEntry(w, a, s, "mob", mobId, now,
                                                                   dmg, m.health, 0),
                                                          item, wearItem(item, loss, now),
                                                          p.isAdmin, m1.health))]
          IN IF m.health <= 0 THEN w
             ELSE IF Hit(a, s, "mob", mobId) \notin hits THEN w
             ELSE IF m1.health > 0 THEN [w1 EXCEPT !.mobs[i] = m1]
             ELSE [w1 EXCEPT !.mobs = removeMob(@, mobId),
                             !.items = @ \cup {boneDrop(w.nextId, m1)},
                             !.nextId = @ + 1,
                             !.sent = @ \o <<Emit(0, "mob_dead", mobId)>>
                                        \o lootMessages(m1.damageDealers, w.nextId),
                             !.deaths = Append(@, [mob |-> mobId, drop |-> w.nextId,
                                                   dealers |-> m1.damageDealers,
                                                   killer |-> a])]

RECURSIVE hitMobs(_, _, _, _, _, _)
hitMobs(w, a, s, ids, now, hits) ==
  IF ids = <<>> THEN w
  ELSE hitMobs(hitMob(w, a, s, Head(ids), now, hits), a, s, Tail(ids), now, hits)

mobIds(ms) == [i \in 1..Len(ms) |-> ms[i].id]

\* lines 531-535 (the orbit angle of line 537 is not carried: see the header)
boneCount(hotbar) == Cardinality({i \in 1..Len(hotbar) : hotbar[i].name = "Bone"})
maxHealthFor(hotbar) == baseMaxHealth + (baseMaxHealth \div 2) * boneCount(hotbar)

\* the bonus without the clamp of line 535
recomputeNoClamp(p) == [p EXCEPT !.maxHealth = maxHealthFor(p.hotbar)]

\* a recomputation that adds the Bone bonus to the stored maxHealth
recomputeAdding(p) ==
  [p EXCEPT !.maxHealth = @ + maxHealthFor(p.hotbar) - baseMaxHealth,
            !.health = IF @ > p.maxHealth THEN p.maxHealth ELSE @]

recompute(p) ==
  [p EXCEPT !.maxHealth = maxHealthFor(p.hotbar),
            !.health = IF @ > maxHealthFor(p.hotbar) THEN maxHealthFor(p.hotbar) ELSE @]

\* one callback of equipped.forEach (lines 542-621) for hotbar element s
itemPass(w, a, s, now, hits) ==
  IF inReload(w.pp[a].hotbar[s], now) THEN w
  ELSE LET w1 == hitPlayers(w, a, s, players, now, hits)
       IN hitMobs(w1, a, s, mobIds(w1.mobs), now, hits)

RECURSIVE itemsFrom(_, _, _, _, _)
itemsFrom(w, a, s, now, hits) ==
  IF s > Len(w.pp[a].hotbar) THEN w
  ELSE IF w.pp[a].hotbar[s] = NoItem THEN itemsFrom(w, a, s + 1, now, hits)
  ELSE itemsFrom(itemPass(w, a, s, now, hits), a, s + 1, now, hits)

\* one callback of players.forEach (lines 528-625)
combatPlayer(w, a, now, hits) ==
  IF isDead(w.pp[a]) THEN w
  ELSE itemsFrom([w EXCEPT !.pp[a] = recompute(@)], a, 1, now, hits)

RECURSIVE combatPass(_, _, _, _)
combatPass(w, order, now, hits) ==
  IF order = <<>> THEN w
  ELSE combatPass(combatPlayer(w, Head(order), now, hits), Tail(order), now, hits)

tickStart ==
  [pp |-> pp, mobs |-> mobs, items |-> items, nextId |-> nextId,
   hitLog |-> <<>>, deaths |-> <<>>, sent |-> <<>>, crashed |-> FALSE]

\* the callback of the setInterval of line 524: combat, then setInterval again
Tick(hits) ==
  /\ ~crashed
  /\ nestedIntervals < MaxIntervals
  /\ \E w \in {combatPass(tickStart, players, clock, hits)} :
        /\ pp' = w.pp
        /\ mobs' = w.mobs
        /\ items' = w.items
        /\ nextId' = w.nextId
        /\ hitLog' = w.hitLog
        /\ deaths' = w.deaths
        /\ sent' = w.sent
  /\ lastHits' = hits
  /\ nestedIntervals' = nestedIntervals + 1
  /\ saved' = <<>>
  /\ UNCHANGED <<clock, conn, authedUser, activePlayers, players, crashed, pickLog>>

\* the nested callback reads dmg (line 658), a const of the outer callback's
\* inner closure that is not in scope here: the first hit on a mob throws
throwsOnMob(w, a, now, hits) ==
  \E s \in 1..Len(w.pp[a].hotbar) :
    /\ w.pp[a].hotbar[s] # NoItem
    /\ ~inReload(w.pp[a].hotbar[s], now)
    /\ \E i \in 1..Len(w.mobs) :
         w.mobs[i].health > 0 /\ Hit(a, s, "mob", w.mobs[i].id) \in hits

\* one callback of players.forEach (lines 631-693)
nestedPlayer(w, a, now, hits) ==
  IF w.crashed \/ isDead(w.pp[a]) THEN w
  ELSE LET w1 == [w EXCEPT !.pp[a] = recompute(@)]
       IN IF throwsOnMob(w1, a, now, hits) THEN [w1 EXCEPT !.crashed = TRUE] ELSE w1

RECURSIVE nestedPass(_, _, _, _)
nestedPass(w, order, now, hits) ==
  IF order = <<>> THEN w
  ELSE nestedPass(nestedPlayer(w, Head(order), now, hits), Tail(order), now, hits)

\* the callback of the setInterval of line 627: combat against mobs, spawn
\* pass, despawn pass; an exception ends the callback and the process
nestedTick(w0, now, hits, rx, ry) ==
  LET w == nestedPass(w0, players, now, hits)
  IN IF w.crashed THEN w ELSE despawnPass(spawnPass(w, 0, rx, ry), now)

NestedTick(hits, rx, ry) ==
  /\ ~crashed
  /\ nestedIntervals >= 1
  /\ \E w \in {nestedTick(tickStart, clock, hits, rx, ry)} :
        /\ pp' = w.pp
        /\ mobs' = w.mobs
        /\ items' = w.items
        /\ nextId' = w.nextId
        /\ hitLog' = w.hitLog
        /\ deaths' = w.deaths
        /\ sent' = w.sent
        /\ crashed' = w.crashed
  /\ lastHits' = hits
  /\ saved' = <<>>
  /\ UNCHANGED <<clock, conn, authedUser, activePlayers, players, nestedIntervals, pickLog>>

(* ------------------------------ autosave ------------------------------ *)
\* lines 722-728: one savePlayerState per stored player, under p.username
RECURSIVE autosaves(_)
autosaves(order) ==
  IF order = <<>> THEN <<>>
  ELSE savePlayerState(pp[Head(order)].username, pp[Head(order)].inventory,
                       pp[Head(order)].hotbar)
       \o autosaves(Tail(order))

\* the callback of the setInterval of line 722, which the text places after
\* the setInterval of line 627 inside the callback of line 524
Autosave ==
  /\ ~crashed
  /\ nestedIntervals >= 1
  /\ saved' = autosaves(players)
  /\ sent' = <<>>
  /\ NoTickOutput
  /\ UNCHANGED <<clock, conn, authedUser, activePlayers, pp, players, items, pickLog>>

(* ---------------------------- specification --------------------------- *)
\* rows of the profile store: what earlier sessions saved
wornBone == [createBonePetal("common") EXCEPT !.health = 25]
annRow == [inventory |-> <<>>, hotbar |-> <<wornBone>>]
bobRow == [inventory |-> <<>>, hotbar |-> <<createBonePetal("rare")>>]
loadoutRow ==
  [inventory |-> [emptyInventory EXCEPT ![1] = Stack(createBonePetal("common"), 2),
                                        ![2] = Stack(droppedPetal("common"), 1)],
   hotbar |-> <<droppedPetal("common")>>]
UserOf(id) == IF id = 1 THEN "ann" ELSE "bob"
RowOf(id) == IF id = 1 THEN annRow ELSE bobRow

Rows == {annRow, bobRow, loadoutRow}
Usernames == {"ann", "bob"}
Names == {"ann", "bob", ADMIN_USERNAME}
Deltas == {0 - MaxDelta, 0, MaxDelta}
OrbitDists == {0, 10}
InvIndexes == {-1} \cup (0..MaxInvIdx) \cup {InventorySize}
HotbarIndexes == {-1} \cup (0..MaxHotbarIdx)
RandX == {40, 600, topDraw}
ClockSteps == {2000, 3000}

MobHits == {h \in FeasibleHits : h.kind = "mob"}

TickStep ==
  \E hits \in SubsetsUpTo(FeasibleHits, MaxHits) : Tick(hits)

\* any hit on a mob ends the nested callback the same way, so one hit is drawn
NestedTickStep(rx) ==
  \E hits \in SubsetsUpTo(MobHits, 1) : NestedTick(hits, rx, spawnY)

\* ---- Spec: the whole program
Command(id) ==
  \/ Connect(id)
  \/ Disconnect(id)
  \/ \E u \in Usernames, row \in Rows : Auth(id, u, row)
  \/ AuthRefused(id)
  \/ ChatMessage(id)
  \/ \E n \in Names : SetUsername(id, n)
  \/ \E dx \in Deltas, dy \in Deltas : Move(id, dx, dy)
  \/ \E od \in OrbitDists : OrbitControl(id, od)
  \/ \E itemId \in 1..(nextId - 1) : PickupRequest(id, itemId)
  \/ \E i \in InvIndexes \cup {lengthKey}, h \in HotbarIndexes : EquipRequest(id, i, h)
  \/ \E h \in HotbarIndexes : UnequipRequest(id, h)
  \/ RespawnRequest(id)

Next ==
  \/ \E id \in Conns : Command(id)
  \/ TickStep
  \/ \E rx \in RandX : NestedTickStep(rx)
  \/ Autosave
  \/ \E dt \in ClockSteps : Advance(dt)

Spec == Init /\ [][Next]_vars

\* a player after connection, auth against its row and set_username
joined(id) ==
  setUsernamePlayer([createPendingPlayer EXCEPT !.inventory = restoreInventory(RowOf(id)),
                                                !.hotbar = RowOf(id).hotbar],
                    UserOf(id))

InitJoined(orbitDist) ==
  /\ clock = 0
  /\ conn = [c \in Conns |-> "open"]
  /\ authedUser = [c \in Conns |-> UserOf(c)]
  /\ activePlayers = {<<UserOf(c), c>> : c \in Conns}
  /\ pp = [c \in Conns |-> [joined(c) EXCEPT !.orbitDist = orbitDist]]
  /\ players = <<1, 2>>
  /\ items = {}
  /\ mobs = <<>>
  /\ nextId = 1
  /\ nestedIntervals = 0
  /\ crashed = FALSE
  /\ hitLog = <<>>
  /\ lastHits = {}
  /\ deaths = <<>>
  /\ sent = <<>>
  /\ pickLog = {}
  /\ saved = <<>>

\* ---- SpecHunt: ann and bob have joined and stand at the spawn point, where
\* ---- the mobs of the first zone appear; they hunt and pick up the drops
InitHunt == InitJoined(defaultOrbitDist)

NextHunt ==
  \/ \E id \in Conns : \E itemId \in 1..(nextId - 1) : PickupRequest(id, itemId)
  \/ Disconnect(1)
  \/ TickStep
  \/ Len(mobs) <= MaxMobs /\ NestedTickStep(40)
  \/ Advance(3000)

SpecHunt == InitHunt /\ [][NextHunt]_vars

\* ---- SpecDuel: ann and bob have joined and sent orbit_control(10), which
\* ---- puts each in reach of the other's petals; the mobs appear out of reach;
\* ---- ann keeps sending commands
InitDuel == InitJoined(10)

DuelCommand(id) ==
  \/ Move(id, MaxDelta, 0)
  \/ RespawnRequest(id)
  \/ UnequipRequest(id, 0)
  \/ EquipRequest(id, 0, 0)

NextDuel ==
  \/ DuelCommand(1)
  \/ TickStep
  \/ Len(mobs) <= MaxMobs /\ NestedTickStep(600)
  \/ Advance(3000)

SpecDuel == InitDuel /\ [][NextDuel]_vars

\* ---- SpecMobs: the server runs with nobody connected; every spawn pass of a
\* ---- run draws the same offset, a low one or the top one
sameDraw(rx) == IF Len(mobs) = 0 THEN TRUE ELSE mobs[1].x = spawnXIn(0, rx)

NextMobs ==
  \/ TickStep
  \/ \E rx \in {40, topDraw} : sameDraw(rx) /\ Len(mobs) <= MaxStore /\ NestedTickStep(rx)
  \/ Advance(3000)

SpecMobs == Init /\ [][NextMobs]_vars

\* ---- SpecLoadout: one client joins and rearranges its loadout
LoadoutCommand(id) ==
  \/ Connect(id)
  \/ Auth(id, "ann", loadoutRow)
  \/ SetUsername(id, "ann")
  \/ pp[id].speed = playerSpeed /\ SetUsername(id, ADMIN_USERNAME)
  \/ \E i \in InvIndexes, h \in HotbarIndexes : EquipRequest(id, i, h)
  \/ \E h \in HotbarIndexes : UnequipRequest(id, h)

NextLoadout == LoadoutCommand(1)

SpecLoadout == Init /\ [][NextLoadout]_vars

\* ---- SpecSpar: ann joined from a stored loadout whose hotbar holds a common
\* ---- Petal (damage 5, durability 15, reload 2000) and spars with bob
joinedWith(row, username) ==
  setUsernamePlayer([createPendingPlayer EXCEPT !.inventory = restoreInventory(row),
                                                !.hotbar = row.hotbar],
                    username)

\* two clients joined from the stored rows row1 and row2 and sent orbit_control;
\* drops are the items that mobs killed so far left in the world
InitFrom(row1, row2, orbitDist, drops, id) ==
  /\ clock = 0
  /\ conn = [c \in Conns |-> "open"]
  /\ authedUser = [c \in Conns |-> UserOf(c)]
  /\ activePlayers = {<<UserOf(c), c>> : c \in Conns}
  /\ pp = [c \in Conns |->
             [joinedWith(IF c = 1 THEN row1 ELSE row2, UserOf(c))
                EXCEPT !.orbitDist = orbitDist]]
  /\ players = <<1, 2>>
  /\ items = drops
  /\ mobs = <<>>
  /\ nextId = id
  /\ nestedIntervals = 0
  /\ crashed = FALSE
  /\ hitLog = <<>>
  /\ lastHits = {}
  /\ deaths = <<>>
  /\ sent = <<>>
  /\ pickLog = {}
  /\ saved = <<>>

InitSpar == InitFrom(loadoutRow, bobRow, 10, {}, 1)

NextSpar ==
  \/ RespawnRequest(1)
  \/ EquipRequest(1, 1, 0)
  \/ TickStep
  \/ Advance(2000)

SpecSpar == InitSpar /\ [][NextSpar]_vars

\* ---- SpecPack: ann joined from a stored row whose 24 inventory slots are all
\* ---- occupied (common Petals and one rare Bone) with a rare and a common Bone
\* ---- in the hotbar; two zone-0 mobs were killed next to the spawn point and
\* ---- their drops lie in reach of ann and bob
packRow ==
  [inventory |-> [i \in 1..InventorySize |->
                    IF i = 2 THEN Stack(createBonePetal("rare"), 1)
                    ELSE Stack(droppedPetal("common"), 1)],
   hotbar |-> <<createBonePetal("rare"), createBonePetal("common")>>]

packDrops == {boneDrop(3, spawnMob(1, 40, spawnY)), boneDrop(4, spawnMob(2, 40, spawnY))}

InitPack == InitFrom(packRow, bobRow, defaultOrbitDist, packDrops, 5)

NextPack ==
  \/ \E id \in Conns : \E itemId \in 1..(nextId - 1) : PickupRequest(id, itemId)
  \/ \E dx \in {MaxDelta, 0 - MaxDelta} : Move(2, dx, 0)
  \/ \E h \in HotbarIndexes : UnequipRequest(1, h)
  \/ EquipRequest(1, 1, 1)
  \/ Advance(3000)

SpecPack == InitPack /\ [][NextPack]_vars

\* ---- SpecEquip: ann joined from the stored loadout (a stack of two Bones, a
\* ---- single Petal and 22 empty slots; one Petal in the hotbar) and moves
\* ---- items between inventory and hotbar
InitEquip == InitFrom(loadoutRow, bobRow, defaultOrbitDist, {}, 1)

NextEquip ==
  \/ \E i \in InvIndexes, h \in HotbarIndexes : EquipRequest(1, i, h)
  \/ \E h \in HotbarIndexes : UnequipRequest(1, h)

SpecEquip == InitEquip /\ [][NextEquip]_vars

\* ---- SpecSession: two clients connect, authenticate (the replies of the
\* ---- profile store come in any order, also after a disconnect), name
\* ---- themselves and leave
SessionCommand(id) ==
  \/ Connect(id)
  \/ Disconnect(id)
  \/ \E u \in Usernames : Auth(id, u, RowOf(id))
  \/ AuthRefused(id)
  \/ \E n \in Usernames : SetUsername(id, n)

NextSession == \E id \in Conns : SessionCommand(id)

SpecSession == Init /\ [][NextSession]_vars

\* ---- SpecJoin: two clients log in from rows of the profile store that hold a
\* ---- persisted inventory: the stored loadout, or the row that a disconnect
\* ---- between auth and set_username saved (24 empty slots, hotbar [])
savedRow == [inventory |-> emptyInventory, hotbar |-> <<>>]
JoinRows == {loadoutRow, savedRow}

JoinCommand(id) ==
  \/ Connect(id)
  \/ Disconnect(id)
  \/ \E row \in JoinRows : Auth(id, UserOf(id), row)
  \/ SetUsername(id, UserOf(id))
  \/ UnequipRequest(id, 0)

NextJoin == \E id \in Conns : JoinCommand(id)

SpecJoin == Init /\ [][NextJoin]_vars

\* ---- SpecMutual: ann and bob both joined with a rare Bone (damage 270) and
\* ---- sent orbit_control(10), so each is in reach of the other's petal
InitMutual == InitFrom(bobRow, bobRow, 10, {}, 1)

NextMutual ==
  \/ \E id \in Conns : RespawnRequest(id)
  \/ Move(1, MaxDelta, 0)
  \/ TickStep
  \/ Advance(3000)

SpecMutual == InitMutual /\ [][NextMutual]_vars

\* ---- SpecCull: the first player in the store carries the rare Bone (damage
\* ---- 270, which kills a zone-0 mob in one hit), the second the worn common
\* ---- Bone; both stand at the spawn point, where the mobs of zone 0 appear
InitCull == InitFrom(bobRow, annRow, defaultOrbitDist, {}, 1)

NextCull ==
  \/ TickStep
  \/ Len(mobs) <= MaxMobs /\ NestedTickStep(40)
  \/ Advance(3000)

SpecCull == InitCull /\ [][NextCull]_vars

\* ---- SpecAdmin: ann joined from the stored loadout (a common Petal, damage
\* ---- 5) and bob with the worn common Bone (damage 30); both sent
\* ---- orbit_control(10), which puts each in reach of the other and of the
\* ---- zone-0 mob of the first spawn pass; ann may take the admin name before
\* ---- the first tick
InitAdmin == InitFrom(loadoutRow, annRow, 10, {}, 1)

NextAdmin ==
  \/ nestedIntervals = 0 /\ pp[1].speed = playerSpeed /\ SetUsername(1, ADMIN_USERNAME)
  \/ TickStep
  \/ mobs = <<>> /\ NestedTickStep(40)
  \/ Advance(3000)

SpecAdmin == InitAdmin /\ [][NextAdmin]_vars

\* ---- SpecRename: ann and bob have joined; ann names herself again (also
\* ---- with bob's name and, once, with the admin name), moves an item between
\* ---- hotbar and inventory, sends auth again and leaves; the autosave runs
\* ---- in between
InitRename == InitFrom(annRow, bobRow, defaultOrbitDist, {}, 1)

RenameCommand(id) ==
  \/ Disconnect(id)
  \/ Auth(id, UserOf(id), RowOf(id))
  \/ \E n \in Usernames : SetUsername(id, n)
  \/ pp[id].speed = playerSpeed /\ SetUsername(id, ADMIN_USERNAME)
  \/ UnequipRequest(id, 0)
  \/ EquipRequest(id, 0, 0)

NextRename ==
  \/ RenameCommand(1)
  \/ TickStep
  \/ Autosave

SpecRename == InitRename /\ [][NextRename]_vars

\* ---- SpecFrame: ann (worn common Bone) and bob (rare Bone) have joined and
\* ---- sent orbit_control(10); the drop of a zone-0 mob lies next to the spawn
\* ---- point; after the ticks of the run ann sends every kind of command
InitFrame == InitFrom(annRow, annRow, 10, {boneDrop(2, spawnMob(1, 40, spawnY))}, 3)

FrameCommand(id) ==
  \/ Move(id, 0, MaxDelta)
  \/ OrbitControl(id, 0)
  \/ PickupRequest(id, 2)
  \/ EquipRequest(id, 0, 0)
  \/ UnequipRequest(id, 0)
  \/ RespawnRequest(id)
  \/ ChatMessage(id)
  \/ SetUsername(id, UserOf(id))

NextFrame ==
  \/ nestedIntervals = MaxIntervals /\ FrameCommand(1)
  \/ TickStep
  \/ mobs = <<>> /\ NestedTickStep(40)

SpecFrame == InitFrame /\ [][NextFrame]_vars

\* ---- SpecRoam: ann has joined and walks: steps that stay inside the world
\* ---- and steps that overshoot its edges, in both directions of both axes,
\* ---- at the normal and at the administrator's speed, with respawns in between
InitRoam == InitFrom(annRow, bobRow, defaultOrbitDist, {}, 1)

NextRoam ==
  \/ \E dx \in {0 - MaxDelta, 0 - MidDelta, 0, MidDelta, MaxDelta} :
       \E dy \in {0 - MaxDelta, 0 - MidDelta, 0, MidDelta, MaxDelta} : Move(1, dx, dy)
  \/ RespawnRequest(1)
  \/ pp[1].speed = playerSpeed /\ SetUsername(1, ADMIN_USERNAME)
  \/ Advance(3000)

SpecRoam == InitRoam /\ [][NextRoam]_vars

\* ---- SpecStash: ann joined with an empty 24-slot inventory and a worn
\* ---- common Bone in the hotbar; the drops of two zone-0 mobs lie in reach;
\* ---- she picks up, equips and unequips, with keys of every kind
InitStash == InitFrom(annRow, bobRow, defaultOrbitDist, packDrops, 5)

NextStash ==
  \/ \E itemId \in 1..(nextId - 1) : PickupRequest(1, itemId)
  \/ \E i \in InvIndexes \cup {lengthKey}, h \in HotbarIndexes : EquipRequest(1, i, h)
  \/ \E h \in HotbarIndexes : UnequipRequest(1, h)

SpecStash == InitStash /\ [][NextStash]_vars

(* ------------------------------- claims ------------------------------- *)
\* ---- under SpecHunt

\* C1: of the pickup_request commands naming one world item at most one takes
\* it, and the item is then gone from the item store for good; a request for an
\* item that is gone changes nothing and sends nothing
PickupExactlyOnce ==
  /\ [](\A e1 \in pickLog : \A e2 \in pickLog :
          e1.won /\ e2.won /\ e1.item = e2.item => e1 = e2)
  /\ [](\A e \in pickLog : e.won => e.item \notin ItemIds)
  /\ [][(\E e \in pickLog' : e \notin pickLog /\ ~e.won)
          => UNCHANGED <<state, nextId>> /\ sent' = <<>>]_vars

\* both players asked for one item: one took it, the other came too late
PickupRaceSeen ==
  \E e1 \in pickLog : \E e2 \in pickLog :
    e1.item = e2.item /\ e1.won /\ e1.added /\ ~e2.won /\ e1.by # e2.by

\* C2: every damage application of a tick comes from an item whose reloadUntil
\* at that moment is not later than the tick's timestamp
DamageOnlyWhenReloaded ==
  \A i \in DOMAIN hitLog : hitLog[i].reloadUntil <= hitLog[i].now

\* the recipients of the item_spawn for a drop, with multiplicity
lootCount(dropId, c) ==
  Cardinality({i \in DOMAIN sent :
                 sent[i].ev = "item_spawn" /\ sent[i].arg = dropId /\ sent[i].to = c})
recorded(d, c) == \E i \in DOMAIN d.dealers : d.dealers[i] = c

\* C7: a mob that dies by combat leaves exactly one drop in the item store, and
\* the item_spawn for it goes once to every player recorded in the mob's
\* damage-dealer set and to no other player
LootToDealersOnly ==
  \A i \in DOMAIN deaths :
    /\ Cardinality({it \in items : it.id = deaths[i].drop}) = 1
    /\ \A j \in DOMAIN deaths : j # i => deaths[j].drop # deaths[i].drop
    /\ \A c \in Conns :
         lootCount(deaths[i].drop, c) =
           IF InStore(c) /\ recorded(deaths[i], c) THEN 1 ELSE 0
    /\ lootCount(deaths[i].drop, 0) = 0

\* a mob two players had damaged died by the blow of the second
SharedKillSeen ==
  \E i \in DOMAIN deaths :
    /\ Len(deaths[i].dealers) = 2
    /\ deaths[i].killer = deaths[i].dealers[2]
    /\ \A c \in Conns : InStore(c) /\ lootCount(deaths[i].drop, c) = 1

\* C9: no tick callback throws, whatever the mobs it finds
TickNeverThrows == ~crashed

\* ---- under SpecDuel

\* the player is inside the invincibility window at the time of the clock
inWindow(p) == p.invincibleUntil # 0 /\ clock < p.invincibleUntil

\* h is the only pair of its petal among the pairs in range
onlyHitOf(h, hits) == \A g \in hits : g.a = h.a /\ g.s = h.s => g = h

\* a tick left the petal of h as it was
petalUntouched(h) == pp'[h.a].hotbar[h.s] = pp[h.a].hotbar[h.s]

\* C3 as stated: a petal in range of a player inside the invincibility window
\* leaves that player's health and its own durability and reloadUntil as they
\* were, and no step lowers the health of a player inside the window
InvincibleHealthNeverLowered ==
  [][\A id \in Conns :
       InStore(id) /\ inWindow(pp[id])
       => /\ pp'[id].health >= pp[id].health
          /\ \A h \in lastHits' :
               h.kind = "player" /\ h.id = id /\ onlyHitOf(h, lastHits')
               => petalUntouched(h)]_vars

\* C3: a petal in range of a player inside the invincibility window leaves its
\* own durability and reloadUntil as they were, and the player's health goes
\* down only to the maxHealth that the bonus recomputation gives the hotbar
InvincibleTakesNoDamage ==
  [][\A id \in Conns :
       InStore(id) /\ inWindow(pp[id])
       => /\ pp'[id].health >= Min(pp[id].health, maxHealthFor(pp[id].hotbar))
          /\ \A h \in lastHits' :
               h.kind = "player" /\ h.id = id /\ onlyHitOf(h, lastHits')
               => petalUntouched(h)]_vars

\* a tick found a ready petal of a living player in range of a living player
\* inside the window, and applied no damage
IgnoredHitSeen ==
  /\ hitLog = <<>>
  /\ \E h \in lastHits :
       /\ h.kind = "player"
       /\ inWindow(pp[h.id])
       /\ pp[h.id].health > 0
       /\ pp[h.a].health > 0
       /\ pp[h.a].hotbar[h.s].reloadUntil <= clock

DeadAreExcluded ==
  /\ [](\A i \in DOMAIN hitLog :
          /\ hitLog[i].attHealth > 0
          /\ hitLog[i].kind = "player" => hitLog[i].tgtHealth > 0)
  /\ [][\A id \in Conns :
          InStore(id) /\ pp[id].health = 0 /\ pp'[id].health = 0
          => /\ pp'[id].x = pp[id].x /\ pp'[id].y = pp[id].y
             /\ lastHits' # {} => pp'[id] = pp[id]
             /\ \A h \in lastHits' :
                  h.kind = "player" /\ h.id = id /\ onlyHitOf(h, lastHits')
                  => petalUntouched(h)]_vars

\* a tick found petals in range of a player at health 0, and of a player at
\* health 0 in range of a living one, and applied no damage
DeadSkippedSeen ==
  /\ hitLog = <<>>
  /\ \E h \in lastHits : h.kind = "player" /\ pp[h.id].health = 0 /\ pp[h.a].health > 0
  /\ \E h \in lastHits : h.kind = "player" /\ pp[h.a].health = 0 /\ pp[h.id].health > 0

\* ---- under SpecMobs

\* C5: every zone holds at most maxMobsPerZone mobs, and the store at most that
\* many per zone
ZoneCapHolds ==
  /\ \A zoneIndex \in 0..(NumZones - 1) : countMobsInZone(mobs, zoneIndex) <= maxMobsPerZone
  /\ Len(mobs) <= NumZones * maxMobsPerZone

\* the periodic callbacks that run the combat pass: the one of line 524 and
\* those registered by line 627
tickDrivers == 1 + nestedIntervals

\* C8: exactly one tick driver is scheduled
SingleTickDriver == tickDrivers = 1

\* ---- under SpecLoadout

\* the units of the kind of k that the player holds in inventory stacks and in
\* hotbar slots
RECURSIVE stackUnits(_, _, _)
stackUnits(inv, k, i) ==
  IF i > Len(inv) THEN 0
  ELSE (IF SameKind(inv[i].item, k) THEN inv[i].count ELSE 0) + stackUnits(inv, k, i + 1)
units(p, k) ==
  stackUnits(p.inventory, k, 1)
    + Cardinality({i \in 1..Len(p.hotbar) : SameKind(p.hotbar[i], k)})
displaced(p, hotbarIndex, k) ==
  IF hotbarIndex >= 0 /\ SameKind(hotbarGet(p, hotbarIndex), k) THEN 1 ELSE 0
Kinds == {createBonePetal("common"), createBonePetal("ultra"), droppedPetal("common")}

\* C4: an equip_request or unequip_request leaves the units of every kind as
\* they were, but for the unit that an equip displaces from an occupied hotbar slot
LoadoutConserved ==
  [][\A id \in Conns : \A k \in Kinds :
       /\ \A i \in InvIndexes : \A h \in HotbarIndexes :
            InStore(id) /\ inventoryGet(pp[id], i) # NoSlot /\ EquipRequest(id, i, h)
            => units(pp'[id], k) = units(pp[id], k) - displaced(pp[id], h, k)
       /\ \A h \in HotbarIndexes :
            UnequipRequest(id, h) => units(pp'[id], k) = units(pp[id], k)]_vars

\* ---- under SpecSpar

\* C11: every hit a non-admin player's petal lands on another player lowers
\* that player's health by the petal's damage, not below 0, and the petal's
\* durability by the same damage; when the durability so reached is 0 or less
\* the petal's reloadUntil becomes now + reload and its durability is restored
\* to maxHealth, otherwise reloadUntil is untouched; the petal stays in its
\* hotbar slot; a petal of damage 5, durability 15 and reload 2000 is at
\* durability 15, 10 or 5 when it hits and starts its reload from 5 alone,
\* which is its third hit.
landedOnPlayer == {i \in 1..Len(hitLog) : hitLog[i].kind = "player" /\ ~hitLog[i].admin}
lastOfPetal(i) == \A j \in 1..Len(hitLog) :
                     j > i => hitLog[j].a # hitLog[i].a \/ hitLog[j].s # hitLog[i].s
HitWearsPetal ==
  \A i \in landedOnPlayer :
    LET e == hitLog[i]
        left == e.petal.health - e.petal.damage
    IN /\ e.tgtAfter = Max(0, e.tgtHealth - e.petal.damage)
       /\ e.petalAfter.name = e.petal.name /\ e.petalAfter.rarity = e.petal.rarity
       /\ e.petalAfter.damage = e.petal.damage /\ e.petalAfter.reload = e.petal.reload
       /\ e.petalAfter.maxHealth = e.petal.maxHealth
       /\ IF left <= 0
          THEN /\ e.petalAfter.reloadUntil = e.now + e.petal.reload
               /\ e.petalAfter.health = e.petal.maxHealth
          ELSE /\ e.petalAfter.reloadUntil = e.petal.reloadUntil
               /\ e.petalAfter.health = left
       /\ lastOfPetal(i) => pp[e.a].hotbar[e.s] = e.petalAfter
       /\ e.petal.damage = 5 /\ e.petal.maxHealth = 15
            => /\ e.petal.health \in {15, 10, 5}
               /\ e.petalAfter.reloadUntil # e.petal.reloadUntil <=> e.petal.health = 5

\* the third hit of the common Petal: durability 5, reload started, 15 restored
ThirdHitReloads ==
  \E i \in landedOnPlayer :
    /\ hitLog[i].petal.damage = 5 /\ hitLog[i].petal.maxHealth = 15
    /\ hitLog[i].petal.health = 5
    /\ hitLog[i].petalAfter.reloadUntil = hitLog[i].now + 2000
    /\ hitLog[i].petalAfter.health = 15
    /\ hitLog[i].tgtAfter = hitLog[i].tgtHealth - 5

\* ---- under SpecDuel

\* C12: a respawn_request of a player in the store at time t leaves that
\* player with health equal to its maxHealth, at (spawnX, spawnY) and with
\* invincibleUntil = t + 2000; its inventory, its hotbar, its other fields and
\* every other player are as they were, and so are the stores.
RespawnResets ==
  [][\A id \in Conns :
       InStore(id) /\ RespawnRequest(id)
         => /\ pp'[id].health = pp[id].maxHealth
            /\ pp'[id].x = 20 /\ pp'[id].y = worldHeight \div 2
            /\ pp'[id].invincibleUntil = clock + 2000
            /\ pp'[id].inventory = pp[id].inventory
            /\ pp'[id].hotbar = pp[id].hotbar
            /\ pp'[id] = [pp[id] EXCEPT !.health = pp'[id].health, !.x = pp'[id].x,
                                        !.y = pp'[id].y,
                                        !.invincibleUntil = pp'[id].invincibleUntil]
            /\ \A o \in Conns : o # id => pp'[o] = pp[o]
            /\ UNCHANGED <<clock, conn, authedUser, activePlayers, players, items, mobs>>]_vars

\* a player with the Bone bonus has just respawned at a later time
RespawnedSeen ==
  /\ sent = <<Emit(1, "respawn_success", 0)>>
  /\ clock > 0
  /\ pp[1].maxHealth = 150 /\ pp[1].health = 150
  /\ pp[1].x = spawnX
  /\ pp[1].invincibleUntil = clock + 2000


\* C13: recomputing maxHealth is idempotent: applied twice in a row to any
\* stored player it gives what one application gives; after it health is at
\* most maxHealth, and maxHealth is 100 + 50 x (number of hotbar items named
\* Bone).
bones(p) == Cardinality({i \in 1..Len(p.hotbar) : p.hotbar[i] # NoItem /\ p.hotbar[i].name = "Bone"})
RecomputeIdempotent ==
  \A id \in Conns :
    InStore(id) =>
      /\ recompute(recompute(pp[id])) = recompute(pp[id])
      /\ recompute(pp[id]).health <= recompute(pp[id]).maxHealth
      /\ recompute(pp[id]).maxHealth = 100 + 50 * bones(pp[id])
      /\ recompute(pp[id]).health = Min(pp[id].health, 100 + 50 * bones(pp[id]))

\* a player whose health is above what its hotbar now grants: the clamp acts
ClampPending ==
  \E id \in Conns :
    /\ InStore(id)
    /\ pp[id].health > 100 + 50 * bones(pp[id])
    /\ recompute(pp[id]).health = 100 + 50 * bones(pp[id])
    /\ recompute(pp[id]) # pp[id]


\* ---- under SpecPack

\* C14: a pickup_request in range by a player whose inventory has no stack of
\* the item's kind and no empty slot is a no-op: the inventory is unchanged and
\* the item stays in the item store.
noRoomFor(p, it) ==
  \A i \in 1..Len(p.inventory) :
    /\ p.inventory[i] # NoSlot
    /\ p.inventory[i].item.name # it.name \/ p.inventory[i].item.rarity # it.rarity
FullPickupKeepsItem ==
  [][\A id \in Conns : \A itemId \in ItemIds :
       /\ InStore(id)
       /\ inPickupRange(pp[id], ItemById(itemId))
       /\ noRoomFor(pp[id], ItemById(itemId))
       /\ PickupRequest(id, itemId)
       => /\ pp'[id].inventory = pp[id].inventory
          /\ \E it \in items' : it.id = itemId]_vars


\* C15: a pickup_request changes something only when the item exists and lies
\* within playerRadius + itemRadius of the player; in range, when the inventory
\* has a stack of the item's name and rarity, the count of the first such stack
\* goes up by 1 and no other slot changes; when it has none but has an empty
\* slot, the lowest empty slot receives the item with count 1 and no other slot
\* changes; in both cases the item is removed from the item store; nothing
\* else of any player changes.
kindAt(inv, i, it) ==
  inv[i] # NoSlot /\ inv[i].item.name = it.name /\ inv[i].item.rarity = it.rarity
PickupStacksOrFills ==
  [][\A id \in Conns : \A itemId \in 1..(nextId - 1) :
       InStore(id) /\ PickupRequest(id, itemId)
       => LET inv == pp[id].inventory
              reach == IF itemId \in ItemIds
                       THEN Sq(pp[id].x - ItemById(itemId).x) + Sq(pp[id].y - ItemById(itemId).y)
                              < Sq(20 + ItemById(itemId).radius)
                       ELSE FALSE
          IN /\ ~reach => pp' = pp /\ items' = items
             /\ reach =>
                  LET it == ItemById(itemId)
                      stacks == {i \in 1..Len(inv) : kindAt(inv, i, it)}
                      holes == {i \in 1..Len(inv) : inv[i] = NoSlot}
                      low(S) == CHOOSE i \in S : \A j \in S : i <= j
                  IN /\ stacks # {}
                          => /\ pp'[id].inventory = [inv EXCEPT ![low(stacks)].count = @ + 1]
                             /\ items' = items \ {it}
                     /\ stacks = {} /\ holes # {}
                          => /\ pp'[id].inventory[low(holes)].count = 1
                             /\ kindAt(pp'[id].inventory, low(holes), it)
                             /\ pp'[id].inventory[low(holes)].item.damage = it.damage
                             /\ pp'[id].inventory[low(holes)].item.health = it.health
                             /\ \A i \in 1..Len(inv) :
                                  i # low(holes) => pp'[id].inventory[i] = inv[i]
                             /\ Len(pp'[id].inventory) = Len(inv)
                             /\ items' = items \ {it}
                     /\ pp'[id] = [pp[id] EXCEPT !.inventory = pp'[id].inventory]
                     /\ \A o \in Conns : o # id => pp'[o] = pp[o]]_vars

\* ann freed her second slot, picked one Bone into it (the lowest empty slot)
\* and stacked the other on it; bob walked out of range and asked in vain
BothPickupsSeen ==
  /\ pp[1].inventory[2] # NoSlot
  /\ pp[1].inventory[2].item.name = "Bone" /\ pp[1].inventory[2].item.rarity = "common"
  /\ pp[1].inventory[2].count = 2
  /\ pp[1].inventory[1].item.name = "Petal"
  /\ items = {}
  /\ pp[2].x > 100
  /\ sent = <<Emit(1, "inventory_update", 0)>>


\* ---- under SpecEquip

\* C16: an equip_request(invIndex, hotbarIndex) on a non-empty inventory slot
\* moves exactly one unit: with count > 1 the count goes down by 1, with count
\* 1 the slot becomes empty, and in both cases hotbar[hotbarIndex] holds the
\* slot's item afterwards while every other inventory slot and every other
\* hotbar entry is as before; on an empty (or absent) inventory slot neither
\* the inventory nor the hotbar changes.
hotbarKeys(p) == {-1} \cup (0..(Len(p.hotbar) + MaxHotbarIdx))
EquipMovesOneUnit ==
  [][\A i \in InvIndexes : \A h \in HotbarIndexes :
       InStore(1) /\ EquipRequest(1, i, h)
       => LET inv == pp[1].inventory
              empty == IF i >= 0 /\ i < Len(inv) THEN inv[i + 1] = NoSlot ELSE TRUE
          IN IF empty THEN pp' = pp
             ELSE /\ inv[i + 1].count > 1
                       => pp'[1].inventory = [inv EXCEPT ![i + 1].count = @ - 1]
                  /\ inv[i + 1].count = 1
                       => pp'[1].inventory = [inv EXCEPT ![i + 1] = NoSlot]
                  /\ hotbarGet(pp'[1], h) = inv[i + 1].item
                  /\ \A k \in hotbarKeys(pp[1]) :
                       k # h => hotbarGet(pp'[1], k) = hotbarGet(pp[1], k)
                  /\ pp'[1] = [pp[1] EXCEPT !.inventory = pp'[1].inventory,
                                            !.hotbar = pp'[1].hotbar,
                                            !.hotbarProp = pp'[1].hotbarProp]
                  /\ pp'[2] = pp[2]]_vars

\* one Bone of the stack of two went to hotbar slot 0 and the single Petal to
\* hotbar slot 1, which emptied its inventory slot
BothEquipsSeen ==
  /\ pp[1].inventory[1] # NoSlot /\ pp[1].inventory[1].count = 1
  /\ pp[1].inventory[2] = NoSlot
  /\ Len(pp[1].hotbar) = 2
  /\ pp[1].hotbar[1] = createBonePetal("common")
  /\ pp[1].hotbar[2] = droppedPetal("common")
  /\ sent = <<Emit(1, "inventory_update", 0), Emit(1, "hotbar_update", 0)>>


\* C17: an unequip_request on a hotbar slot that is empty, or on an occupied
\* one while the inventory has neither a stack of the item's kind nor an empty
\* slot, is a no-op: inventory, hotbar and everything else are unchanged and
\* nothing is emitted.
UnequipWithoutRoomIsNoOp ==
  [][\A h \in HotbarIndexes :
       InStore(1) /\ UnequipRequest(1, h)
       => LET held == IF h >= 0 /\ h < Len(pp[1].hotbar) THEN pp[1].hotbar[h + 1]
                      ELSE IF h < 0 THEN pp[1].hotbarProp ELSE NoItem
          IN (IF held = NoItem THEN TRUE ELSE noRoomFor(pp[1], held))
               => /\ pp' = pp
                  /\ sent' = <<>>
                  /\ UNCHANGED <<clock, conn, authedUser, activePlayers, players, items, mobs>>]_vars

\* ann's rare Bone went back onto its stack, which left hotbar slot 0 empty;
\* her common Bone has no stack and no empty slot to go to; the last command
\* emitted nothing
NoRoomSeen ==
  /\ pp[1].hotbar[1] = NoItem
  /\ pp[1].inventory[2].count = 2
  /\ pp[1].hotbar[2] = createBonePetal("common")
  /\ noRoomFor(pp[1], pp[1].hotbar[2])
  /\ sent = <<>>


\* ---- under SpecMobs

\* C18: every mob made by the spawn routine carries its creation timestamp,
\* the field the despawn pass compares with the clock to remove a mob older
\* than 60000 ms.
MobsCarrySpawnTime ==
  \A i \in 1..Len(mobs) : mobs[i].hasSpawnTime


\* ---- under SpecSession

\* C19: a player is in the player store only if its connection completed a
\* successful auth; a set_username on a connection that has not is answered
\* with an error and creates no player and changes no shared state.
OnlyAuthenticatedJoin ==
  /\ [](\A id \in Conns : InStore(id) => authedUser[id] # "")
  /\ [][\A id \in Conns : \A n \in Usernames :
          authedUser[id] = "" /\ SetUsername(id, n)
          => /\ sent' = <<Emit(id, "error", 0)>>
             /\ UNCHANGED <<conn, authedUser, activePlayers, pp, players, items, mobs, clock>>]_vars

\* bob's connection asked for a name before any successful auth, while ann was
\* in the store: it got the error and is not in the store
RefusedNameSeen ==
  /\ sent = <<Emit(2, "error", 0)>>
  /\ conn[2] = "open" /\ authedUser[2] = ""
  /\ InStore(1) /\ ~InStore(2)
  /\ pp[2] = createPendingPlayer

FailedAuthCloses ==
  [][\A id \in Conns :
       conn[id] = "open" /\ AuthRefused(id)
       => /\ authedUser'[id] = authedUser[id]
          /\ conn'[id] = "closed"]_vars


\* ---- under SpecJoin

UsernameSetOnce ==
  [][\A id \in Conns : \A n \in Usernames :
       InStore(id) /\ SetUsername(id, n) => pp'[id].username = pp[id].username]_vars


\* ---- under SpecEquip

\* C26: an equip_request or unequip_request whose invIndex is outside the 24
\* inventory slots or whose hotbarIndex is outside the hotbar's slots
\* 0..HotbarSize-1 leaves inventory and hotbar as they were, so the hotbar
\* never has more than HotbarSize entries.
HotbarSize == 10
OutOfRangeIgnored ==
  /\ [](Len(pp[1].hotbar) <= HotbarSize)
  /\ [][\A h \in HotbarIndexes :
          /\ InStore(1)
          /\ h < 0 \/ h >= HotbarSize
          /\ \/ UnequipRequest(1, h)
             \/ \E i \in InvIndexes : EquipRequest(1, i, h)
          => /\ pp'[1].inventory = pp[1].inventory
             /\ pp'[1].hotbar = pp[1].hotbar
             /\ pp'[1].hotbarProp = pp[1].hotbarProp]_vars
  /\ [][\A i \in InvIndexes : \A h \in HotbarIndexes :
          /\ InStore(1)
          /\ i < 0 \/ i >= InventorySize
          /\ EquipRequest(1, i, h)
          => /\ pp'[1].inventory = pp[1].inventory
             /\ pp'[1].hotbar = pp[1].hotbar
             /\ pp'[1].hotbarProp = pp[1].hotbarProp]_vars


\* ---- under SpecMutual

\* C27: when at the start of a tick two living players outside their
\* invincibility window each have a petal that is not reloading in hit range
\* of the other, with damage at least the other's health, both have health 0
\* after that tick.
canKill(a, o) ==
  /\ pp[a].health > 0
  /\ pp[a].invincibleUntil = 0 \/ clock >= pp[a].invincibleUntil
  /\ Len(pp[a].hotbar) >= 1 /\ pp[a].hotbar[1] # NoItem
  /\ pp[a].hotbar[1].reloadUntil = 0 \/ clock >= pp[a].hotbar[1].reloadUntil
  /\ pp[a].hotbar[1].damage >= pp[o].health
MutualKillBothDie ==
  [][/\ nestedIntervals' = nestedIntervals + 1
     /\ canKill(1, 2) /\ canKill(2, 1)
     /\ [a |-> 1, s |-> 1, kind |-> "player", id |-> 2] \in lastHits'
     /\ [a |-> 2, s |-> 1, kind |-> "player", id |-> 1] \in lastHits'
     => pp'[1].health = 0 /\ pp'[2].health = 0]_vars


\* ---- under SpecHunt

\* C28: in a tick, a hit of a living non-admin player's petal that is not
\* reloading on a live mob lowers the mob's health by the petal's damage,
\* records the player among the mob's damage dealers, and lowers the petal's
\* durability by the mob's damage; at durability 0 or less the petal's
\* reloadUntil becomes now + reload and its durability is restored to
\* maxHealth. (Stated for a tick with that one petal in range of that one mob.)
soleMobHit(h) ==
  /\ clock' = clock
  /\ lastHits' = {h}
  /\ h.kind = "mob"
  /\ pp[h.a].health > 0 /\ ~pp[h.a].isAdmin
  /\ pp[h.a].hotbar[h.s].reloadUntil = 0 \/ clock >= pp[h.a].hotbar[h.s].reloadUntil
  /\ \E i \in 1..Len(mobs) : mobs[i].id = h.id /\ mobs[i].health > 0
mobHitEffect(h) ==
  LET m == mobs[CHOOSE i \in 1..Len(mobs) : mobs[i].id = h.id]
      petal == pp[h.a].hotbar[h.s]
      after == pp'[h.a].hotbar[h.s]
  IN /\ IF m.health - petal.damage > 0
        THEN \E j \in 1..Len(mobs') :
               /\ mobs'[j].id = h.id
               /\ mobs'[j].health = m.health - petal.damage
               /\ \E k \in 1..Len(mobs'[j].damageDealers) : mobs'[j].damageDealers[k] = h.a
        ELSE /\ \A j \in 1..Len(mobs') : mobs'[j].id # h.id
             /\ \E d \in 1..Len(deaths') :
                  /\ deaths'[d].mob = h.id
                  /\ \E k \in 1..Len(deaths'[d].dealers) : deaths'[d].dealers[k] = h.a
     /\ IF petal.health - m.damage <= 0
        THEN after.health = petal.maxHealth /\ after.reloadUntil = clock + petal.reload
        ELSE after.health = petal.health - m.damage /\ after.reloadUntil = petal.reloadUntil
MobHitApplied ==
  [][\A h \in lastHits' : soleMobHit(h) => mobHitEffect(h)]_vars


\* ---- under SpecCull

\* C29: a mob whose health reaches 0 or less is removed from the mob store in
\* the same tick and its death is broadcast exactly once; between ticks every
\* mob in the store has 0 < health <= maxHealth; once removed, a mob takes no
\* further hit and is not killed again in that tick, although later petals
\* are in range of it.
hitsOn(mobId) == {i \in 1..Len(hitLog) : hitLog[i].kind = "mob" /\ hitLog[i].id = mobId}
inBand(ms, z) == {i \in 1..Len(ms) : (ms[i].x * 7) \div 8000 = z}
added == {j \in 1..Len(mobs') : \A i \in 1..Len(mobs) : mobs[i].id # mobs'[j].id}
SpawnOnePerOpenZone ==
  [][Len(mobs') > Len(mobs)
     => \A z \in 0..6 :
          LET new == {j \in added : (mobs'[j].x * 7) \div 8000 = z}
          IN IF Cardinality(inBand(mobs, z)) < 15
             THEN /\ Cardinality(new) = 1
                  /\ \A j \in new : mobs'[j].rarity = rarityZones[z + 1]
             ELSE new = {}]_vars

\* ---- under SpecAdmin
\* C31 (as the code has it): every hit that lands takes the striking item's
\* damage off the target, doubled exactly when the attacker is flagged as
\* administrator and whatever the target's flag is; the striking petal of an
\* administrator loses twice the item's damage on a hit against a player
scaleOf(h) == IF h.admin THEN 2 ELSE 1
AdminScalesOwnHits ==
  \A i \in 1..Len(hitLog) :
    LET h == hitLog[i]
        dealt == scaleOf(h) * h.petal.damage
    IN /\ h.dmg = dealt
       /\ h.kind = "mob" => h.tgtAfter = h.tgtHealth - dealt
       /\ h.kind = "player"
            => /\ h.tgtAfter = (IF h.tgtHealth - dealt <= 0 THEN 0 ELSE h.tgtHealth - dealt)
               /\ h.petalAfter.health = (IF h.petal.health - dealt <= 0
                                         THEN h.petal.maxHealth
                                         ELSE h.petal.health - dealt)

\* in one tick an administrator has struck a player and has been struck by a
\* player that is no administrator
AdminHitsSeen ==
  /\ \E i \in 1..Len(hitLog) : hitLog[i].admin /\ hitLog[i].kind = "player"
  /\ \E i \in 1..Len(hitLog) :
       /\ ~hitLog[i].admin /\ hitLog[i].kind = "player"
       /\ pp[hitLog[i].id].isAdmin /\ hitLog[i].tgtAfter > 0

\* C31 (as stated): an administrator deals twice the item's damage and takes
\* twice the attacker's item damage; the others deal and take the item's damage
AdminDealsAndTakesDouble ==
  \A i \in 1..Len(hitLog) :
    LET h == hitLog[i]
        taken == h.tgtHealth - h.tgtAfter
    IN (h.kind = "player" /\ h.tgtAfter > 0)
         => /\ taken = scaleOf(h) * h.petal.damage
            /\ taken = (IF pp[h.id].isAdmin THEN 2 ELSE 1) * h.petal.damage

\* ---- under SpecRename
\* C32: in every state a player's isAdmin flag is set exactly when its
\* current username is the admin username
AdminFlagFollowsName ==
  \A id \in Conns : pp[id].isAdmin <=> pp[id].username = ADMIN_USERNAME

\* ---- under SpecFrame
\* C33: no command handler (move, orbit_control, pickup_request,
\* equip_request, unequip_request, respawn_request, chat_message,
\* set_username) lowers a
\* player's health, adds, removes or modifies a mob, or leaves behind an item
\* whose durability or reloadUntil differs from what an item had before the
\* command: items are moved, copied or dropped as they are
allItemsOf(P, its) ==
  UNION {{P[c].hotbar[k] : k \in 1..Len(P[c].hotbar)}
         \cup {P[c].hotbarProp}
         \cup {P[c].inventory[k].item : k \in 1..Len(P[c].inventory)} : c \in Conns}
  \cup {itemOf(it) : it \in its}
freshItems == {NoItem, starterPetal, createBonePetal("common"), createBonePetal("ultra")}
CommandsLeaveCombatState ==
  [][FrameCommand(1)
       => /\ mobs' = mobs
          /\ \A c \in Conns : pp'[c].health >= pp[c].health
          /\ allItemsOf(pp', items')
               \subseteq (allItemsOf(pp, items) \cup freshItems)]_vars

\* after combat has hurt bob and a mob, ann has respawned, moved, set her
\* orbit, picked up the drop and unequipped her petal
CommandsAfterCombat ==
  /\ pp[2].health < pp[2].maxHealth
  /\ \E i \in 1..Len(mobs) : mobs[i].health < mobs[i].maxHealth
  /\ pp[1].invincibleUntil # 0
  /\ pp[1].y # spawnY
  /\ pp[1].orbitDist = 0
  /\ items = {}
  /\ pp[1].hotbar[1] = NoItem

\* ---- under SpecSession
\* C34: every entry of the active-session map refers to a connected socket:
\* once a connection's disconnect has been handled no username maps to it
SessionsAreLive ==
  \A e \in activePlayers : conn[e[2]] = "open"

\* ---- under SpecRename
\* C35: every write to the profile store targets the username its connection
\* authenticated as, with that connection's inventory and hotbar, and only a
\* connection authenticated as the admin carries the admin flag
WritesGoToOwnProfile ==
  /\ \A i \in 1..Len(saved) :
       \E id \in Conns : /\ authedUser[id] = saved[i].username
                         /\ pp[id].inventory = saved[i].inventory
                         /\ pp[id].hotbar = saved[i].hotbar
  /\ \A id \in Conns : pp[id].isAdmin => authedUser[id] = ADMIN_USERNAME

\* ---- under SpecAdmin
\* C36: between ticks every item in a player's hotbar has
\* 0 < health <= maxHealth, and every hit of the last tick left its petal in
\* that range: a loss to 0 or below restored maxHealth
inRange(item) == 0 < item.health /\ item.health <= item.maxHealth
PlayersInsideWorld ==
  \A i \in 1..Len(players) :
    LET p == pp[players[i]]
    IN /\ playerRadius <= p.x /\ p.x <= worldWidth - playerRadius
       /\ playerRadius <= p.y /\ p.y <= worldHeight - playerRadius

\* a player that respawned walked into the far corner of the x axis and the
\* near corner of the y axis
CornerReached ==
  /\ pp[1].invincibleUntil # 0
  /\ pp[1].x = worldWidth - playerRadius
  /\ pp[1].y = playerRadius

\* ---- under SpecStash
\* C38: the inventory of a player that started with 24 empty slots always has
\* exactly 24 slots, every occupied slot has count >= 1, and no two slots
\* hold stacks of the same name and rarity
InventoryWellFormed ==
  LET inv == pp[1].inventory
      used == {k \in 1..Len(inv) : inv[k] # NoSlot}
  IN /\ Len(inv) = InventorySize
     /\ \A k \in used : inv[k].count >= 1
     /\ \A j \in used : \A k \in used : j # k => ~SameKind(inv[j].item, inv[k].item)

====
